---- MODULE Spec2Model ----
(***************************************************************************)
(* The Jarvis task assistant: the per-user pattern learner                 *)
(* (src/brain/learner.py, class JarvisLearner) and the suggestion engine   *)
(* that reads it (src/brain/suggester.py, class JarvisSuggester).          *)
(*                                                                         *)
(* Texts are TLA+ strings; StrTable gives the characters of every string   *)
(* literal the model uses, so that lower(), `in` and the vectorizer's      *)
(* tokenizer are computed character by character.  A Python dict is an     *)
(* insertion-ordered sequence of [key, val] entries.  A call returns a     *)
(* record whose field exc names the exception it raised, "none" if none.   *)
(***************************************************************************)
EXTENDS Integers, Sequences, FiniteSets, TLC

VARIABLES user_patterns, vectorizer, last

vars == <<user_patterns, vectorizer, last>>

\* ------------------------------------------------------------- bounds
\* learn_from_task calls in one behaviour of Spec, all users together
MaxTasks == 5
\* learn_from_task calls of the single user of SpecDeep
MaxDeep == 12
\* learn_from_task calls in SpecPredict, SpecInsights and SpecSuggest
MaxFew == 4
\* learn_from_task calls in SpecTime
MaxTimed == 2
\* learn_from_task calls in SpecTwo, both users together
MaxTwo == 6

\* ------------------------------------------------------------- inputs
Users == {"u1", "u2"}

\* task texts learned in Spec: stop words only / shopping / work
Pool == {"do it", "Buy milk", "call mom"}

\* task texts learned by the single user of the specifications that add reads
DeepPool == {"Buy milk", "call mom"}

\* task texts learned in SpecDeep, in the order they arrive
DeepBacklog == <<"Buy milk", "call mom">>

\* task texts classified in SpecPredict
PredictPool ==
    {"Fix bug in login", "pick up dry cleaning", "random thought",
     "get code review", "workout at home", "digit", "GYM", "clean house",
     "buy bread", "Email the shop", "go for a run", "Buy milk", "call mom",
     "do it", "", "bu"}

Days == 0..6
Hours == 0..23

\* the instants (weekday, hour) at which Spec learns a task
LearnTimes == {<<0, 9>>}

\* the weekdays and the hours SpecTime learns at, SpecSuggest asks at
SuggestDays == {0, 6}
EdgeHours == {5, 6, 11, 12, 16, 17, 20, 21}

\* the partial texts SpecSuggest asks completions for
Partials == {"", "bu", "buy", "Buy milk"}

\* ------------------------------------------------------------ strings
StrTable ==
    ("git" :> <<"g", "i", "t">>)
    @@ ("code" :> <<"c", "o", "d", "e">>)
    @@ ("programming" :> <<"p", "r", "o", "g", "r", "a", "m", "m", "i", "n", "g">>)
    @@ ("development" :> <<"d", "e", "v", "e", "l", "o", "p", "m", "e", "n", "t">>)
    @@ ("api" :> <<"a", "p", "i">>)
    @@ ("database" :> <<"d", "a", "t", "a", "b", "a", "s", "e">>)
    @@ ("deploy" :> <<"d", "e", "p", "l", "o", "y">>)
    @@ ("fix bug" :> <<"f", "i", "x", " ", "b", "u", "g">>)
    @@ ("commit" :> <<"c", "o", "m", "m", "i", "t">>)
    @@ ("meeting" :> <<"m", "e", "e", "t", "i", "n", "g">>)
    @@ ("call" :> <<"c", "a", "l", "l">>)
    @@ ("work" :> <<"w", "o", "r", "k">>)
    @@ ("email" :> <<"e", "m", "a", "i", "l">>)
    @@ ("send" :> <<"s", "e", "n", "d">>)
    @@ ("presentation" :> <<"p", "r", "e", "s", "e", "n", "t", "a", "t", "i", "o", "n">>)
    @@ ("report" :> <<"r", "e", "p", "o", "r", "t">>)
    @@ ("buy" :> <<"b", "u", "y">>)
    @@ ("shop" :> <<"s", "h", "o", "p">>)
    @@ ("grocery" :> <<"g", "r", "o", "c", "e", "r", "y">>)
    @@ ("get" :> <<"g", "e", "t">>)
    @@ ("pick up" :> <<"p", "i", "c", "k", " ", "u", "p">>)
    @@ ("purchase" :> <<"p", "u", "r", "c", "h", "a", "s", "e">>)
    @@ ("exercise" :> <<"e", "x", "e", "r", "c", "i", "s", "e">>)
    @@ ("gym" :> <<"g", "y", "m">>)
    @@ ("run" :> <<"r", "u", "n">>)
    @@ ("walk" :> <<"w", "a", "l", "k">>)
    @@ ("health" :> <<"h", "e", "a", "l", "t", "h">>)
    @@ ("doctor" :> <<"d", "o", "c", "t", "o", "r">>)
    @@ ("workout" :> <<"w", "o", "r", "k", "o", "u", "t">>)
    @@ ("clean" :> <<"c", "l", "e", "a", "n">>)
    @@ ("wash" :> <<"w", "a", "s", "h">>)
    @@ ("cook" :> <<"c", "o", "o", "k">>)
    @@ ("home" :> <<"h", "o", "m", "e">>)
    @@ ("house" :> <<"h", "o", "u", "s", "e">>)
    @@ ("repair" :> <<"r", "e", "p", "a", "i", "r">>)
    @@ ("organize" :> <<"o", "r", "g", "a", "n", "i", "z", "e">>)
    @@ ("do" :> <<"d", "o">>)
    @@ ("it" :> <<"i", "t">>)
    @@ ("go" :> <<"g", "o">>)
    @@ ("for" :> <<"f", "o", "r">>)
    @@ ("the" :> <<"t", "h", "e">>)
    @@ ("in" :> <<"i", "n">>)
    @@ ("at" :> <<"a", "t">>)
    @@ ("up" :> <<"u", "p">>)
    @@ ("me" :> <<"m", "e">>)
    @@ ("my" :> <<"m", "y">>)
    @@ ("to" :> <<"t", "o">>)
    @@ ("and" :> <<"a", "n", "d">>)
    @@ ("of" :> <<"o", "f">>)
    @@ ("on" :> <<"o", "n">>)
    @@ ("do it" :> <<"d", "o", " ", "i", "t">>)
    @@ ("Buy milk" :> <<"B", "u", "y", " ", "m", "i", "l", "k">>)
    @@ ("call mom" :> <<"c", "a", "l", "l", " ", "m", "o", "m">>)
    @@ ("go for a run" :> <<"g", "o", " ", "f", "o", "r", " ", "a", " ", "r", "u", "n">>)
    @@ ("Email the shop" :> <<"E", "m", "a", "i", "l", " ", "t", "h", "e", " ", "s", "h", "o", "p">>)
    @@ ("Fix bug in login" :> <<"F", "i", "x", " ", "b", "u", "g", " ", "i", "n", " ", "l", "o", "g", "i", "n">>)
    @@ ("pick up dry cleaning" :> <<"p", "i", "c", "k", " ", "u", "p", " ", "d", "r", "y", " ", "c", "l", "e", "a", "n", "i", "n", "g">>)
    @@ ("random thought" :> <<"r", "a", "n", "d", "o", "m", " ", "t", "h", "o", "u", "g", "h", "t">>)
    @@ ("get code review" :> <<"g", "e", "t", " ", "c", "o", "d", "e", " ", "r", "e", "v", "i", "e", "w">>)
    @@ ("workout at home" :> <<"w", "o", "r", "k", "o", "u", "t", " ", "a", "t", " ", "h", "o", "m", "e">>)
    @@ ("digit" :> <<"d", "i", "g", "i", "t">>)
    @@ ("GYM" :> <<"G", "Y", "M">>)
    @@ ("clean house" :> <<"c", "l", "e", "a", "n", " ", "h", "o", "u", "s", "e">>)
    @@ ("buy bread" :> <<"b", "u", "y", " ", "b", "r", "e", "a", "d">>)
    @@ ("" :> <<>>)
    @@ ("bu" :> <<"b", "u">>)

Chars(s) == StrTable[s]

UpperToLower ==
    ("A" :> "a") @@ ("B" :> "b") @@ ("C" :> "c") @@ ("D" :> "d") @@ ("E" :> "e")
    @@ ("F" :> "f") @@ ("G" :> "g") @@ ("H" :> "h") @@ ("I" :> "i") @@ ("J" :> "j")
    @@ ("K" :> "k") @@ ("L" :> "l") @@ ("M" :> "m") @@ ("N" :> "n") @@ ("O" :> "o")
    @@ ("P" :> "p") @@ ("Q" :> "q") @@ ("R" :> "r") @@ ("S" :> "s") @@ ("T" :> "t")
    @@ ("U" :> "u") @@ ("V" :> "v") @@ ("W" :> "w") @@ ("X" :> "x") @@ ("Y" :> "y")
    @@ ("Z" :> "z")

\* str.lower()
lower(cs) ==
    [i \in 1..Len(cs) |-> IF cs[i] \in DOMAIN UpperToLower THEN UpperToLower[cs[i]] ELSE cs[i]]

\* `word in text` on strings: substring containment
InText(word, text) ==
    \E i \in 0..(Len(text) - Len(word)) : SubSeq(text, i + 1, i + Len(word)) = word

\* any(word in text for word in words)
AnyWordIn(words, text) ==
    \E k \in 1..Len(words) : InText(Chars(words[k]), text)

\* ----------------------------------------------- keyword classification
DevelopmentWords ==
    <<"git", "code", "programming", "development", "api", "database", "deploy",
      "fix bug", "commit">>
WorkWords == <<"meeting", "call", "work", "email", "send", "presentation", "report">>
ShoppingWords == <<"buy", "shop", "grocery", "get", "pick up", "purchase">>
HealthWords == <<"exercise", "gym", "run", "walk", "health", "doctor", "workout">>
HomeWords == <<"clean", "wash", "cook", "home", "house", "repair", "organize">>

\* predict_category with the shopping rule tried before the work rule, as
\* _simple_categorize orders them
predict_category_shopping_first(task_text, user_id) ==
    LET text == lower(Chars(task_text)) IN
    IF AnyWordIn(DevelopmentWords, text) THEN "development"
    ELSE IF AnyWordIn(ShoppingWords, text) THEN "shopping"
    ELSE IF AnyWordIn(WorkWords, text) THEN "work"
    ELSE IF AnyWordIn(HealthWords, text) THEN "health"
    ELSE IF AnyWordIn(HomeWords, text) THEN "home"
    ELSE "general"

predict_category(task_text, user_id) ==
    LET text == lower(Chars(task_text)) IN
    IF AnyWordIn(DevelopmentWords, text) THEN "development"
    ELSE IF AnyWordIn(WorkWords, text) THEN "work"
    ELSE IF AnyWordIn(ShoppingWords, text) THEN "shopping"
    ELSE IF AnyWordIn(HealthWords, text) THEN "health"
    ELSE IF AnyWordIn(HomeWords, text) THEN "home"
    ELSE "general"

\* the keyword lists of _simple_categorize, shorter than predict_category's
SimpleShoppingWords == <<"buy", "shop", "grocery", "get", "pick up">>
SimpleWorkWords == <<"meeting", "call", "work", "email", "send">>
SimpleHealthWords == <<"exercise", "gym", "run", "walk", "health">>
SimpleHomeWords == <<"clean", "wash", "cook", "home", "house">>

\* the if/elif ladder of _simple_categorize for one task text
SimpleLadder(task_text) ==
    LET text == lower(Chars(task_text)) IN
    IF AnyWordIn(SimpleShoppingWords, text) THEN "shopping"
    ELSE IF AnyWordIn(SimpleWorkWords, text) THEN "work"
    ELSE IF AnyWordIn(SimpleHealthWords, text) THEN "health"
    ELSE IF AnyWordIn(SimpleHomeWords, text) THEN "home"
    ELSE "general"

\* SimpleLadder tabulated over the texts
SimpleBuckets == [task_text \in DOMAIN StrTable |-> SimpleLadder(task_text)]

SimpleBucket(task) == SimpleBuckets[task.text]

\* ------------------------------------------------------------- dicts
DictKeys(d) == {d[i].key : i \in 1..Len(d)}

DictGet(d, k) == d[CHOOSE i \in 1..Len(d) : d[i].key = k].val

\* d[k].append(v) on a defaultdict(list): a new key goes to the end
DictAppend(d, k, v) ==
    IF k \in DictKeys(d)
    THEN [i \in 1..Len(d) |->
            IF d[i].key = k THEN [key |-> k, val |-> Append(d[i].val, v)] ELSE d[i]]
    ELSE Append(d, [key |-> k, val |-> <<v>>])

\* for i, key in enumerate(keys): d[key].append(items[i])
RECURSIVE GroupBy(_, _, _)
GroupBy(items, keys, d) ==
    IF items = <<>> THEN d
    ELSE GroupBy(Tail(items), Tail(keys), DictAppend(d, Head(keys), Head(items)))

Min(a, b) == IF a <= b THEN a ELSE b
Max(a, b) == IF a >= b THEN a ELSE b
Range(s) == {s[i] : i \in 1..Len(s)}

\* -------------------------------------------------------- vectorizer
\* TfidfVectorizer(max_features=100, stop_words='english')
max_features == 100

\* the entries of the 'english' stop word list that texts of the pools contain
StopWords ==
    {"do", "it", "go", "for", "the", "in", "at", "up", "call", "get", "me", "my",
     "to", "and", "of", "on"}

WordChars ==
    {"a", "b", "c", "d", "e", "f", "g", "h", "i", "j", "k", "l", "m", "n", "o", "p",
     "q", "r", "s", "t", "u", "v", "w", "x", "y", "z", "0", "1", "2", "3", "4", "5",
     "6", "7", "8", "9", "_"}

\* the default token_pattern (?u)\b\w\w+\b: maximal runs of two or more word
\* characters; cur is the run being read
RECURSIVE Tokens(_, _)
Tokens(cs, cur) ==
    IF cs = <<>> THEN (IF Len(cur) >= 2 THEN {cur} ELSE {})
    ELSE IF Head(cs) \in WordChars THEN Tokens(Tail(cs), cur \o Head(cs))
    ELSE (IF Len(cur) >= 2 THEN {cur} ELSE {}) \cup Tokens(Tail(cs), "")

\* the vectorizer's analyzer: lower-case, tokenize, drop stop words
BuildAnalyzer(text) == Tokens(lower(Chars(text)), "") \ StopWords

\* BuildAnalyzer tabulated over the texts
Analyzed == [text \in DOMAIN StrTable |-> BuildAnalyzer(text)]

Analyze(text) == Analyzed[text]

\* at most max_features terms are kept
LimitFeatures(vocab) ==
    IF Cardinality(vocab) <= max_features THEN vocab
    ELSE CHOOSE kept \in SUBSET vocab : Cardinality(kept) = max_features

\* user_data['vectors'] = None
NoVectors == [fitted |-> FALSE, rows |-> <<>>]

\* TfidfVectorizer.fit_transform(texts): ValueError on an empty vocabulary,
\* which leaves the vectorizer as it was; otherwise the vectorizer is refitted
\* and the matrix has one row per text (a row is kept as its set of terms)
fit_transform(vz, texts) ==
    LET vocab == UNION {Analyze(texts[i]) : i \in 1..Len(texts)} IN
    IF vocab = {}
    THEN [exc |-> "ValueError", vectorizer |-> vz, vectors |-> NoVectors]
    ELSE LET kept == LimitFeatures(vocab) IN
         [exc |-> "none",
          vectorizer |-> [fitted |-> TRUE, vocabulary |-> kept],
          vectors |-> [fitted |-> TRUE,
                       rows |-> [i \in 1..Len(texts) |-> Analyze(texts[i]) \cap kept]]]

\* KMeans(n_clusters=k).fit_predict(rows): it raises, or it labels every row
\* with a cluster in 0..k-1, equal rows alike
KMeansOutcomes(texts, k) ==
    {[exc |-> "ValueError", labels |-> <<>>]}
    \cup {[exc |-> "none", labels |-> [i \in 1..Len(texts) |-> f[texts[i]]]] :
            f \in [Range(texts) -> 0..(k - 1)]}

\* ----------------------------------------------------------- learner
\* the default of user_patterns = defaultdict(lambda: {...})
NewProfile ==
    [tasks |-> <<>>, task_texts |-> <<>>, vectors |-> NoVectors,
     categories |-> <<>>, time_patterns |-> <<>>]

NoUsers == [u \in {} |-> NewProfile]

\* self.user_patterns[user_id]: a missing user is inserted with the default
GetItem(up, user_id) ==
    IF user_id \in DOMAIN up THEN up ELSE up @@ (user_id :> NewProfile)

\* the cluster count clamped at 4 instead of 3
SmartClusterCountClampedAtFour(n_tasks) == Min(4, Max(2, n_tasks \div 3))

\* min(3, max(2, n_tasks // 3))
SmartClusterCount(n_tasks) == Min(3, Max(2, n_tasks \div 3))

\* the task count from which _discover_categories clusters
MinClusterTasks == 4

\* learning updated from the second task on
MinLearnTasksEarly == 3 - 1

\* the task count from which learn_from_task updates the learning
MinLearnTasks == 3

\* f"type_{label}"
TypeLabel(label) == "type_" \o ToString(label)

\* f"{task_data['day']}_{task_data['hour']}"
TimeKey(day, hour) == ToString(day) \o "_" \o ToString(hour)

\* one entry of the record of calls an operation made
Call(fn, arg) == [fn |-> fn, arg |-> arg]

simple_categorize(self, user_id) ==
    LET up == GetItem(self.user_patterns, user_id)
        tasks == up[user_id].tasks
        keys == [i \in 1..Len(tasks) |-> SimpleBucket(tasks[i])]
    IN  [self EXCEPT
            !.user_patterns = [up EXCEPT ![user_id].categories = GroupBy(tasks, keys, <<>>)],
            !.calls = Append(@, Call("_simple_categorize", Len(tasks)))]

\* _discover_categories grouping the clusters into the categories already
\* stored instead of a fresh defaultdict
discover_categories_accumulating(self, user_id, vectors, km) ==
    LET up == GetItem(self.user_patterns, user_id)
        user_data == up[user_id]
        n_tasks == Len(user_data.task_texts)
        n_clusters == SmartClusterCount(n_tasks)
        called == [self EXCEPT !.user_patterns = up,
                               !.calls = Append(@, Call("KMeans", n_clusters))]
    IN  IF n_tasks >= MinClusterTasks
        THEN IF km.exc # "none"
             THEN simple_categorize(
                      [called EXCEPT !.out = Append(@, "Clustering failed, using simple categorization")],
                      user_id)
             ELSE [called EXCEPT !.user_patterns[user_id].categories =
                      GroupBy(user_data.tasks,
                              [i \in 1..Len(km.labels) |-> TypeLabel(km.labels[i])],
                              user_data.categories)]
        ELSE [self EXCEPT !.user_patterns = up]

\* km is what KMeans.fit_predict does when it is called
discover_categories(self, user_id, vectors, km) ==
    LET up == GetItem(self.user_patterns, user_id)
        user_data == up[user_id]
        n_tasks == Len(user_data.task_texts)
        n_clusters == SmartClusterCount(n_tasks)
        called == [self EXCEPT !.user_patterns = up,
                               !.calls = Append(@, Call("KMeans", n_clusters))]
    IN  IF n_tasks >= MinClusterTasks
        THEN IF km.exc # "none"
             THEN simple_categorize(
                      [called EXCEPT !.out = Append(@, "Clustering failed, using simple categorization")],
                      user_id)
             ELSE [called EXCEPT !.user_patterns[user_id].categories =
                      GroupBy(user_data.tasks,
                              [i \in 1..Len(km.labels) |-> TypeLabel(km.labels[i])], <<>>)]
        ELSE [self EXCEPT !.user_patterns = up]

\* _update_learning without its try/except: a failure reaches the caller
update_learning_unguarded(self, user_id, km) ==
    LET up == GetItem(self.user_patterns, user_id)
        fit == fit_transform(self.vectorizer, up[user_id].task_texts)
        entered == [self EXCEPT !.user_patterns = up,
                                !.calls = Append(@, Call("_update_learning", Len(up[user_id].task_texts)))]
    IN  IF fit.exc # "none"
        THEN [entered EXCEPT !.exc = fit.exc]
        ELSE discover_categories(
                 [entered EXCEPT !.vectorizer = fit.vectorizer,
                                 !.user_patterns[user_id].vectors = fit.vectors],
                 user_id, fit.vectors, km)

\* _update_learning storing the refitted matrix for every user, as if the
\* vectors belonged to the shared vectorizer
update_learning_shared_vectors(self, user_id, km) ==
    LET up == GetItem(self.user_patterns, user_id)
        fit == fit_transform(self.vectorizer, up[user_id].task_texts)
        entered == [self EXCEPT !.user_patterns = up,
                                !.calls = Append(@, Call("_update_learning", Len(up[user_id].task_texts)))]
    IN  IF fit.exc # "none"
        THEN [entered EXCEPT !.out = Append(@, "Learning update failed")]
        ELSE LET fitted == [entered EXCEPT
                               !.vectorizer = fit.vectorizer,
                               !.user_patterns = [u \in DOMAIN up |->
                                                     [up[u] EXCEPT !.vectors = fit.vectors]]]
                 found == discover_categories(fitted, user_id, fit.vectors, km)
             IN  IF found.exc # "none"
                 THEN [found EXCEPT !.exc = "none", !.out = Append(@, "Learning update failed")]
                 ELSE found

update_learning(self, user_id, km) ==
    LET up == GetItem(self.user_patterns, user_id)
        fit == fit_transform(self.vectorizer, up[user_id].task_texts)
        entered == [self EXCEPT !.user_patterns = up,
                                !.calls = Append(@, Call("_update_learning", Len(up[user_id].task_texts)))]
    IN  IF fit.exc # "none"
        THEN [entered EXCEPT !.out = Append(@, "Learning update failed")]
        ELSE LET fitted == [entered EXCEPT !.vectorizer = fit.vectorizer,
                                           !.user_patterns[user_id].vectors = fit.vectors]
                 found == discover_categories(fitted, user_id, fit.vectors, km)
             IN  IF found.exc # "none"
                 THEN [found EXCEPT !.exc = "none", !.out = Append(@, "Learning update failed")]
                 ELSE found

learn_time_patterns(self, user_id, task_data) ==
    LET up == GetItem(self.user_patterns, user_id)
        time_key == TimeKey(task_data.day, task_data.hour)
    IN  [self EXCEPT !.user_patterns =
            [up EXCEPT ![user_id].time_patterns = DictAppend(@, time_key, task_data.text)]]

\* now = <<weekday, hour>> of datetime.now(); the three datetime.now() calls
\* of one learn_from_task are taken to fall in the same hour
learn_from_task(self, task_text, user_id, now, km) ==
    LET task_data == [text |-> task_text, timestamp |-> now, hour |-> now[2], day |-> now[1]]
        up == GetItem(self.user_patterns, user_id)
        stored == [self EXCEPT !.user_patterns =
                      [up EXCEPT ![user_id].tasks = Append(@, task_data),
                                 ![user_id].task_texts = Append(@, task_text)]]
        learned == IF Len(stored.user_patterns[user_id].task_texts) >= MinLearnTasks
                   THEN update_learning(stored, user_id, km)
                   ELSE stored
    IN  IF learned.exc # "none" THEN learned
        ELSE learn_time_patterns(learned, user_id, task_data)

\* tasks[:3] and list(items)[:3]
FirstThree(s) == SubSeq(s, 1, Min(3, Len(s)))

get_user_insights(self, user_id) ==
    LET up == GetItem(self.user_patterns, user_id)
        user_data == up[user_id]
        shown == FirstThree(user_data.categories)
    IN  [self EXCEPT
            !.user_patterns = up,
            !.result = <<[total_tasks |-> Len(user_data.tasks),
                          categories_found |-> Len(user_data.categories),
                          time_patterns |-> Len(user_data.time_patterns),
                          sample_categories |->
                              [i \in 1..Len(shown) |->
                                  [key |-> shown[i].key,
                                   val |-> [j \in 1..Len(FirstThree(shown[i].val)) |->
                                               shown[i].val[j].text]]]]>>]

\* what an instance of JarvisLearner has: the attributes __init__ sets and
\* the methods of the class
LearnerAttributes ==
    {"vectorizer", "user_patterns", "classifier", "base_categories",
     "learn_from_task", "_update_learning", "_discover_categories",
     "_simple_categorize", "_learn_time_patterns", "get_user_insights",
     "predict_category"}

\* --------------------------------------------------------- suggester
Default(task, reason, tenths) ==
    [task |-> task, reason |-> reason, confidence |-> <<tenths, 10>>, type |-> "default"]

\* a confidence is the fraction <<numerator, denominator>>
get_default_suggestions(now) ==
    LET hour == now[2] IN
    IF 6 <= hour /\ hour < 10
    THEN <<Default("Plan your day", "Good morning routine", 6),
           Default("Check your calendar", "Start day organized", 5)>>
    ELSE IF 10 <= hour /\ hour < 12
    THEN <<Default("Focus on important work", "Peak productivity time", 7)>>
    ELSE IF 12 <= hour /\ hour < 17
    THEN <<Default("Follow up on pending items", "Good time for follow-ups", 6)>>
    ELSE IF 17 <= hour /\ hour < 21
    THEN <<Default("Plan tomorrow", "Evening planning", 7)>>
    ELSE <<Default("Prepare for tomorrow", "Wind down routine", 5)>>

\* fractions <<numerator, denominator>>, denominators positive
FracLess(a, b) == a[1] * b[2] < b[1] * a[2]
FracMin(a, b) == IF FracLess(b, a) THEN b ELSE a

\* sorted(s, key, reverse=True) for the keys given beside s: descending and
\* stable, equal keys stay in their order
SortDesc(s, keys) ==
    LET pos(i) == Cardinality({j \in 1..Len(s) : FracLess(keys[i], keys[j])})
                  + Cardinality({j \in 1..(i - 1) : ~FracLess(keys[j], keys[i])
                                                   /\ ~FracLess(keys[i], keys[j])})
                  + 1
    IN  [p \in 1..Len(s) |-> s[CHOOSE i \in 1..Len(s) : pos(i) = p]]

\* Counter(items).most_common(n): [item, count] by falling count, items of
\* equal count in the order they were first seen
MostCommon(items, n) ==
    LET first == {i \in 1..Len(items) : \A j \in 1..(i - 1) : items[j] # items[i]}
        RECURSIVE InOrder(_)
        InOrder(S) == IF S = {} THEN <<>>
                      ELSE LET i == CHOOSE x \in S : \A y \in S : x <= y
                           IN <<items[i]>> \o InOrder(S \ {i})
        seen == InOrder(first)
        count(x) == Cardinality({i \in 1..Len(items) : items[i] = x})
        entries == [i \in 1..Len(seen) |-> [item |-> seen[i], count |-> count(seen[i])]]
        sorted == SortDesc(entries, [i \in 1..Len(seen) |-> <<count(seen[i]), 1>>])
    IN  SubSeq(sorted, 1, Min(n, Len(sorted)))

\* strftime("%A") of weekday() 0..6
DayNames ==
    <<"Monday", "Tuesday", "Wednesday", "Thursday", "Friday", "Saturday", "Sunday">>

\* f"day_{current_day}_hour_{current_hour}"
SuggestTimeKey(day, hour) == "day_" \o ToString(day) \o "_hour_" \o ToString(hour)

\* the broader time period of an hour
TimePeriod(hour) ==
    IF 6 <= hour /\ hour < 12 THEN "morning"
    ELSE IF 12 <= hour /\ hour < 17 THEN "afternoon"
    ELSE IF 17 <= hour /\ hour < 21 THEN "evening"
    ELSE "night"

get_time_based_suggestions(user_data, now) ==
    LET current_day == now[1]
        current_hour == now[2]
        time_key == SuggestTimeKey(current_day, current_hour)
        exact ==
            IF time_key \in DictKeys(user_data.time_patterns)
            THEN LET tasks == DictGet(user_data.time_patterns, time_key) IN
                 IF Len(tasks) >= 2
                 THEN <<[task |-> MostCommon(tasks, 1)[1].item,
                         reason |-> "You usually do this on " \o DayNames[current_day + 1]
                                    \o " at " \o ToString(current_hour) \o ":00",
                         confidence |-> FracMin(<<Len(tasks), 5>>, <<9, 10>>),
                         type |-> "time_pattern"]>>
                 ELSE <<>>
            ELSE <<>>
        time_period == TimePeriod(current_hour)
        broad ==
            IF time_period \in DictKeys(user_data.time_patterns)
            THEN LET tasks == DictGet(user_data.time_patterns, time_period) IN
                 IF Len(tasks) >= 3
                 THEN LET common_tasks == MostCommon(tasks, 2) IN
                      [i \in 1..Len(common_tasks) |->
                          [task |-> common_tasks[i].item,
                           reason |-> "Common " \o time_period \o " task for you",
                           confidence |-> FracMin(<<common_tasks[i].count, Len(tasks)>>, <<8, 10>>),
                           type |-> "time_period"]]
                 ELSE <<>>
            ELSE <<>>
    IN  exact \o broad

\* category.replace("_", " ") of a category name
CategoryTitle(category) ==
    IF \E i \in 0..2 : category = TypeLabel(i)
    THEN "type " \o ToString(CHOOSE i \in 0..2 : category = TypeLabel(i))
    ELSE category

RECURSIVE CategorySuggestions(_)
CategorySuggestions(categories) ==
    IF categories = <<>> THEN <<>>
    ELSE LET tasks == Head(categories).val
             task_texts == [i \in 1..Len(tasks) |-> tasks[i].text]
         IN  (IF Len(tasks) >= 3
              THEN <<[task |-> MostCommon(task_texts, 1)[1].item,
                      reason |-> "Popular task in your " \o CategoryTitle(Head(categories).key)
                                 \o " category",
                      confidence |-> FracMin(<<Len(tasks), 10>>, <<7, 10>>),
                      type |-> "category_pattern"]>>
              ELSE <<>>)
             \o CategorySuggestions(Tail(categories))

get_category_suggestions(user_data) == CategorySuggestions(user_data.categories)

\* text.split(): the runs of characters between white space (the texts of
\* the pools hold no other white space than the blank); cur is the run being
\* read
RECURSIVE Split(_, _)
Split(cs, cur) ==
    IF cs = <<>> THEN (IF cur # "" THEN <<cur>> ELSE <<>>)
    ELSE IF Head(cs) = " " THEN (IF cur # "" THEN <<cur>> ELSE <<>>) \o Split(Tail(cs), "")
    ELSE Split(Tail(cs), cur \o Head(cs))

\* [w.lower() for w in text.split() if len(w) > 3]
LongWords(text) ==
    LET words == Split(lower(Chars(text)), "") IN
    SelectSeq(words, LAMBDA w : Len(w) > 3)

RECURSIVE Flatten(_)
Flatten(ss) == IF ss = <<>> THEN <<>> ELSE Head(ss) \o Flatten(Tail(ss))

get_similarity_suggestions(user_data) ==
    IF Len(user_data.tasks) < 5 THEN <<>>
    ELSE LET n == Len(user_data.tasks)
             recent_tasks == SubSeq(user_data.tasks, n - 4, n)
             recent_words == Flatten([i \in 1..5 |-> LongWords(recent_tasks[i].text)])
             common_themes == MostCommon(recent_words, 3)
             themes == SelectSeq(common_themes, LAMBDA e : e.count >= 2)
         IN  [i \in 1..Len(themes) |->
                 [task |-> "Consider another " \o themes[i].item \o "-related task",
                  reason |-> "You've been focusing on " \o themes[i].item \o " lately",
                  confidence |-> FracMin(<<themes[i].count, 5>>, <<6, 10>>),
                  type |-> "theme_based"]]

\* self.learner.<name>: AttributeError when the learner has no such attribute
LearnerLookup(self, name) ==
    IF name \in LearnerAttributes THEN self
    ELSE [self EXCEPT !.exc = "AttributeError"]

\* get_suggestions from the user data on: lines 20 to 37
SuggestionsFor(user_data, now) ==
    IF user_data.tasks = <<>> THEN get_default_suggestions(now)
    ELSE LET suggestions == get_time_based_suggestions(user_data, now)
                            \o get_category_suggestions(user_data)
                            \o get_similarity_suggestions(user_data)
             sorted == SortDesc(suggestions,
                                [i \in 1..Len(suggestions) |-> suggestions[i].confidence])
         IN  SubSeq(sorted, 1, Min(5, Len(sorted)))

\* get_suggestions stops at the first statement that raises: the learner has
\* no _load_user_data, so line 18 raises AttributeError and lines 20 to 37
\* never run
get_suggestions(self, user_id, now) ==
    LET looked == LearnerLookup(self, "_load_user_data") IN
    IF looked.exc # "none" THEN looked
    ELSE [self EXCEPT !.result =
            SuggestionsFor(GetItem(self.user_patterns, user_id)[user_id], now)]

\* the length below which get_smart_completions answers at once
MinPartialLen == 3

get_smart_completions(self, partial_text, user_id, limit) ==
    IF Len(partial_text) < MinPartialLen THEN [self EXCEPT !.result = <<>>]
    ELSE LearnerLookup(self, "get_similar_tasks")

\* ------------------------------------------------------------- state
\* the learner, entering a call
Self ==
    [user_patterns |-> user_patterns, vectorizer |-> vectorizer,
     exc |-> "none", calls |-> <<>>, out |-> <<>>, result |-> <<>>]

\* what the last call was and what it gave back
Returned(op, user, text, now, r) ==
    [op |-> op, user |-> user, text |-> text, now |-> now, exc |-> r.exc,
     calls |-> r.calls, out |-> r.out, result |-> r.result]

TotalTasks ==
    LET RECURSIVE Sum(_)
        Sum(S) == IF S = {} THEN 0
                  ELSE LET u == CHOOSE x \in S : TRUE
                       IN Len(user_patterns[u].tasks) + Sum(S \ {u})
    IN Sum(DOMAIN user_patterns)

Init ==
    /\ user_patterns = NoUsers
    /\ vectorizer = [fitted |-> FALSE, vocabulary |-> {}]
    /\ last = Returned("init", "", "", <<0, 0>>, Self)

\* the outcomes of the clustering that learning task_text would run
Clusterings(user_id, task_text) ==
    LET texts == Append(GetItem(user_patterns, user_id)[user_id].task_texts, task_text)
        fit == fit_transform(vectorizer, texts)
    IN  IF Len(texts) >= MinClusterTasks /\ fit.exc = "none"
        THEN KMeansOutcomes(texts, SmartClusterCount(Len(texts)))
        ELSE {[exc |-> "none", labels |-> <<>>]}

Learn(user_id, task_text, now) ==
    \E km \in Clusterings(user_id, task_text) :
        LET r == learn_from_task(Self, task_text, user_id, now, km) IN
        /\ user_patterns' = r.user_patterns
        /\ vectorizer' = r.vectorizer
        /\ last' = Returned("learn_from_task", user_id, task_text, now, r)

\* add_task and create_bulk_tasks call predict_category on the learner
Predict(user_id, task_text) ==
    /\ last' = Returned("predict_category", user_id, task_text, <<0, 0>>,
                        [Self EXCEPT !.result = <<predict_category(task_text, user_id)>>])
    /\ UNCHANGED <<user_patterns, vectorizer>>

GetUserInsights(user_id) ==
    LET r == get_user_insights(Self, user_id) IN
    /\ user_patterns' = r.user_patterns
    /\ vectorizer' = r.vectorizer
    /\ last' = Returned("get_user_insights", user_id, "", <<0, 0>>, r)

GetSuggestions(user_id, now) ==
    LET r == get_suggestions(Self, user_id, now) IN
    /\ user_patterns' = r.user_patterns
    /\ vectorizer' = r.vectorizer
    /\ last' = Returned("get_suggestions", user_id, "", now, r)

GetSmartCompletions(partial_text, user_id, limit) ==
    LET r == get_smart_completions(Self, partial_text, user_id, limit) IN
    /\ user_patterns' = r.user_patterns
    /\ vectorizer' = r.vectorizer
    /\ last' = Returned("get_smart_completions", user_id, partial_text, <<0, limit>>, r)

\* ---------------------------------------------------- specifications
\* Spec: two users learn texts of Pool
LearnTask ==
    \E user_id \in Users, task_text \in Pool, now \in LearnTimes :
        /\ TotalTasks < MaxTasks
        /\ Learn(user_id, task_text, now)

Next == LearnTask

Spec == Init /\ [][Next]_vars

\* one user learns a few tasks, for the specifications that add calls which
\* only read
LearnFew ==
    \E task_text \in DeepPool, now \in LearnTimes :
        /\ TotalTasks < MaxFew
        /\ Learn("u1", task_text, now)

\* SpecPredict: as POST /task does, categories are predicted between learning
PredictTask == \E user_id \in Users, task_text \in PredictPool : Predict(user_id, task_text)

NextPredict == LearnFew \/ PredictTask

SpecPredict == Init /\ [][NextPredict]_vars

\* SpecInsights: the insights are read between learning
ReadInsights == \E user_id \in Users : GetUserInsights(user_id)

NextInsights == LearnFew \/ ReadInsights

SpecInsights == Init /\ [][NextInsights]_vars

\* SpecSuggest: suggestions and completions are asked for between learning
AskSuggestions ==
    \E user_id \in Users, day \in SuggestDays, hour \in Hours :
        GetSuggestions(user_id, <<day, hour>>)

AskCompletions ==
    \E user_id \in Users, partial_text \in Partials :
        GetSmartCompletions(partial_text, user_id, 3)

NextSuggest == LearnFew \/ AskSuggestions \/ AskCompletions

SpecSuggest == Init /\ [][NextSuggest]_vars

\* SpecDeep: one user learns many tasks, a backlog that arrives in the order
\* of DeepBacklog
LearnDeep ==
    \E k \in 1..Len(DeepBacklog), now \in LearnTimes :
        LET learned == GetItem(user_patterns, "u1")["u1"].task_texts IN
        /\ TotalTasks < MaxDeep
        /\ \A i \in 1..Len(learned) : \E j \in 1..k : DeepBacklog[j] = learned[i]
        /\ Learn("u1", DeepBacklog[k], now)

SpecDeep == Init /\ [][LearnDeep]_vars

\* SpecTime: one user learns at the hours where the time periods change
LearnTimed ==
    \E day \in SuggestDays, hour \in EdgeHours :
        /\ TotalTasks < MaxTimed
        /\ Learn("u1", "Buy milk", <<day, hour>>)

SpecTime == Init /\ [][LearnTimed]_vars

\* SpecTwo: two users learn in any interleaving, each enough for a re-fit
LearnTwo ==
    \E user_id \in Users, task_text \in DeepPool, now \in LearnTimes :
        /\ TotalTasks < MaxTwo
        /\ Learn(user_id, task_text, now)

SpecTwo == Init /\ [][LearnTwo]_vars

\* ------------------------------------------------------------- claims
\* the precedence ladder of the keyword rules
Ladder ==
    <<[category |-> "development", keywords |-> DevelopmentWords],
      [category |-> "work", keywords |-> WorkWords],
      [category |-> "shopping", keywords |-> ShoppingWords],
      [category |-> "health", keywords |-> HealthWords],
      [category |-> "home", keywords |-> HomeWords]>>

RuleMatches(i, task_text) ==
    \E w \in Range(Ladder[i].keywords) : InText(Chars(w), lower(Chars(task_text)))

FirstRuleCategory(task_text) ==
    IF \E i \in 1..Len(Ladder) : RuleMatches(i, task_text)
    THEN Ladder[CHOOSE i \in 1..Len(Ladder) :
                    /\ RuleMatches(i, task_text)
                    /\ \A j \in 1..(i - 1) : ~RuleMatches(j, task_text)].category
    ELSE "general"

\* C1: predict_category(text, user) returns the category of the first rule, in
\* the order development, work, shopping, health, home, one of whose keywords
\* is a substring of the lower-cased text, and general when no rule matches,
\* whoever the user is and whatever has been learned; the call leaves the
\* learner's state as it was.
C1_PredictIsFirstRule ==
    /\ [](last.op = "predict_category" =>
            /\ last.exc = "none"
            /\ last.result = <<FirstRuleCategory(last.text)>>)
    /\ [][last'.op = "predict_category" =>
            /\ user_patterns' = user_patterns
            /\ vectorizer' = vectorizer]_vars

\* a text matching the work rule and the shopping rule is classified as work,
\* for a user never seen, after another user's vectors were fitted
C1_Witness ==
    /\ last.op = "predict_category"
    /\ last.text = "Email the shop"
    /\ last.user = "u2"
    /\ last.result = <<"work">>
    /\ "u1" \in DOMAIN user_patterns
    /\ user_patterns["u1"].vectors.fitted

\* a user's profile, the default for a user the learner has not seen
ProfileOf(up, user_id) == IF user_id \in DOMAIN up THEN up[user_id] ELSE NewProfile

CountIn(s, x) == Cardinality({i \in 1..Len(s) : s[i] = x})

\* all the lists of a dict, one after the other
Values(d) == Flatten([i \in 1..Len(d) |-> d[i].val])

\* the last call ran _update_learning / called KMeans / fell back
RefitRan == \E i \in 1..Len(last.calls) : last.calls[i].fn = "_update_learning"
KMeansRan == \E i \in 1..Len(last.calls) : last.calls[i].fn = "KMeans"
FallbackRan == \E i \in 1..Len(last.calls) : last.calls[i].fn = "_simple_categorize"

\* C3: learn_from_task never raises, whatever fails in vectorization or
\* clustering; when it returns, one record with the given text has been
\* appended at the end of the user's tasks, the earlier records are unchanged
\* and in their order, and the text has been recorded once in the user's time
\* patterns, also when the re-fit failed.
C3_LearnAppendsAndRecords ==
    [][last'.op = "learn_from_task" =>
        LET before == ProfileOf(user_patterns, last'.user)
            after == ProfileOf(user_patterns', last'.user)
        IN  /\ last'.exc = "none"
            /\ Len(after.tasks) = Len(before.tasks) + 1
            /\ SubSeq(after.tasks, 1, Len(before.tasks)) = before.tasks
            /\ after.tasks[Len(after.tasks)].text = last'.text
            /\ after.task_texts = Append(before.task_texts, last'.text)
            /\ Len(Values(after.time_patterns)) = Len(Values(before.time_patterns)) + 1
            /\ CountIn(Values(after.time_patterns), last'.text)
                 = CountIn(Values(before.time_patterns), last'.text) + 1]_vars

\* a call whose re-fit failed in the vectorizer has returned and recorded its
\* text
C3_Witness ==
    /\ last.op = "learn_from_task"
    /\ last.exc = "none"
    /\ RefitRan
    /\ "Learning update failed" \in Range(last.out)
    /\ Len(user_patterns[last.user].tasks) >= MinLearnTasks
    /\ CountIn(Values(user_patterns[last.user].time_patterns), last.text)
         = CountIn(user_patterns[last.user].task_texts, last.text)

\* C4: whenever a user's categories are not empty, they are the categories of
\* the user's current tasks: every task record is in the categories as often
\* as in tasks, and no category holds a record that tasks does not.
C4_CategoriesOfCurrentTasks ==
    \A u \in DOMAIN user_patterns :
        LET tasks == user_patterns[u].tasks
            members == Values(user_patterns[u].categories)
        IN  user_patterns[u].categories # <<>> =>
                /\ Len(members) = Len(tasks)
                /\ \A r \in Range(tasks) \cup Range(members) :
                       CountIn(members, r) = CountIn(tasks, r)
                /\ \A i, j \in 1..Len(user_patterns[u].categories) :
                       i # j => user_patterns[u].categories[i].key
                                  # user_patterns[u].categories[j].key

\* the categories were computed for four tasks and computed again for five
C4_Witness ==
    /\ last.op = "learn_from_task"
    /\ Len(user_patterns[last.user].tasks) = 5
    /\ Len(user_patterns[last.user].categories) = 2
    /\ KMeansRan
    /\ ~FallbackRan

\* the result of _simple_categorize over the tasks
SimpleCategories(tasks) ==
    GroupBy(tasks, [i \in 1..Len(tasks) |-> SimpleBucket(tasks[i])], <<>>)

\* C5: whenever a re-fit runs and clustering does not produce the categories
\* (fewer than 4 tasks, vectorization failed, or clustering raised), the
\* user's categories after the call are the _simple_categorize result over
\* all current tasks.
C5_FallbackWheneverNoClusters ==
    (last.op = "learn_from_task" /\ RefitRan /\ (~KMeansRan \/ FallbackRan)) =>
        user_patterns[last.user].categories
            = SimpleCategories(user_patterns[last.user].tasks)

\* C7: a user with fewer than 3 recorded tasks has no categories and no
\* fitted vectors; a learn_from_task call attempts the re-fit exactly when the
\* task it records is the user's 3rd or a later one.
C7_NoRefitBeforeThirdTask ==
    /\ \A u \in DOMAIN user_patterns :
           Len(user_patterns[u].tasks) < 3 =>
               /\ user_patterns[u].categories = <<>>
               /\ user_patterns[u].vectors = NoVectors
    /\ last.op = "learn_from_task" =>
           (RefitRan <=> Len(user_patterns[last.user].tasks) >= 3)

\* the call recording a user's 3rd task attempted the re-fit, while another
\* user with two tasks has none
C7_Witness ==
    /\ last.op = "learn_from_task"
    /\ Len(user_patterns[last.user].tasks) = 3
    /\ RefitRan
    /\ user_patterns[last.user].vectors.fitted
    /\ \E u \in DOMAIN user_patterns :
           /\ Len(user_patterns[u].tasks) = 2
           /\ user_patterns[u].categories = <<>>
           /\ ~user_patterns[u].vectors.fitted

\* the list a time-pattern dict holds under a key, empty for a missing key
ListAt(d, k) == IF k \in DictKeys(d) THEN DictGet(d, k) ELSE <<>>

\* C6: each learn_from_task call appends the task text under exactly two
\* time-pattern keys of the user, the keys get_suggestions looks up: the exact
\* key day_<d>_hour_<h> of the record's weekday and hour and the time period
\* of the hour (morning 6..11, afternoon 12..16, evening 17..20, night
\* otherwise); what is stored under any other key stays as it was.
C6_LearnRecordsUnderSuggesterKeys ==
    [][last'.op = "learn_from_task" =>
        LET before == ProfileOf(user_patterns, last'.user).time_patterns
            after == ProfileOf(user_patterns', last'.user).time_patterns
            tasks == ProfileOf(user_patterns', last'.user).tasks
            record == tasks[Len(tasks)]
            exact == SuggestTimeKey(record.day, record.hour)
            period == IF record.hour \in 6..11 THEN "morning"
                      ELSE IF record.hour \in 12..16 THEN "afternoon"
                      ELSE IF record.hour \in 17..20 THEN "evening"
                      ELSE "night"
        IN  /\ ListAt(after, exact) = Append(ListAt(before, exact), last'.text)
            /\ ListAt(after, period) = Append(ListAt(before, period), last'.text)
            /\ \A k \in (DictKeys(before) \cup DictKeys(after)) \ {exact, period} :
                   ListAt(after, k) = ListAt(before, k)]_vars

\* a confidence in [0, 1]
InUnitInterval(c) == 0 <= c[1] /\ c[1] <= c[2]

\* C2: get_suggestions(user) returns, in every learner state, a sequence of
\* at most 5 suggestions, ordered by non-increasing confidence, every
\* confidence in [0, 1].
C2_AtMostFiveSortedSuggestions ==
    last.op = "get_suggestions" =>
        /\ last.exc = "none"
        /\ Len(last.result) <= 5
        /\ \A i \in 1..Len(last.result) : InUnitInterval(last.result[i].confidence)
        /\ \A i \in 1..(Len(last.result) - 1) :
               ~FracLess(last.result[i].confidence, last.result[i + 1].confidence)

\* C8: for a user with no fitted vectors, get_smart_completions returns an
\* empty sequence for every partial text and never raises.
C8_NoCompletionsWithoutVectors ==
    (/\ last.op = "get_smart_completions"
     /\ ~ProfileOf(user_patterns, last.user).vectors.fitted) =>
        /\ last.exc = "none"
        /\ last.result = <<>>

\* the default entries the claim gives for an hour: <<task, tenths>>
DefaultsAt(hour) ==
    IF hour \in 6..9 THEN << <<"Plan your day", 6>>, <<"Check your calendar", 5>> >>
    ELSE IF hour \in 10..11 THEN << <<"Focus on important work", 7>> >>
    ELSE IF hour \in 12..16 THEN << <<"Follow up on pending items", 6>> >>
    ELSE IF hour \in 17..20 THEN << <<"Plan tomorrow", 7>> >>
    ELSE << <<"Prepare for tomorrow", 5>> >>

\* C10: for a user with no recorded tasks, get_suggestions returns exactly
\* the default entries of the current hour, each of kind default.
C10_DefaultsForNewUser ==
    (/\ last.op = "get_suggestions"
     /\ ProfileOf(user_patterns, last.user).tasks = <<>>) =>
        /\ last.exc = "none"
        /\ Len(last.result) = Len(DefaultsAt(last.now[2]))
        /\ \A i \in 1..Len(last.result) :
               /\ last.result[i].task = DefaultsAt(last.now[2])[i][1]
               /\ last.result[i].confidence = <<DefaultsAt(last.now[2])[i][2], 10>>
               /\ last.result[i].type = "default"

\* n // 3 clamped to 2..3
ClampedThird(n) ==
    IF n \div 3 < 2 THEN 2 ELSE IF n \div 3 > 3 THEN 3 ELSE n \div 3

\* C9: clustering is attempted only when the user has n >= 4 tasks, and then
\* with k = min(3, max(2, n // 3)) clusters: 2 for n = 4 and n = 6, 3 for
\* n = 9 and n = 12; the categories clustering produces are named type_i with
\* 0 <= i < k, so they are never more than 3.
C9_ClusterCount ==
    last.op = "learn_from_task" =>
        LET n == Len(user_patterns[last.user].tasks)
            categories == user_patterns[last.user].categories
        IN  \A c \in 1..Len(last.calls) :
                   last.calls[c].fn = "KMeans" =>
                       /\ n >= 4
                       /\ last.calls[c].arg = ClampedThird(n)
                       /\ n \in {4, 6} => last.calls[c].arg = 2
                       /\ n \in {9, 12} => last.calls[c].arg = 3
                       /\ ~FallbackRan =>
                              /\ DictKeys(categories)
                                   \subseteq {"type_" \o ToString(i) : i \in 0..(last.calls[c].arg - 1)}
                              /\ Len(categories) <= 3

\* the 12th task is clustered with k = 3, not 12 // 3 = 4, into type_0 and
\* type_2
C9_Witness ==
    /\ last.op = "learn_from_task"
    /\ Len(user_patterns[last.user].tasks) = 12
    /\ Call("KMeans", 3) \in Range(last.calls)
    /\ ~FallbackRan
    /\ DictKeys(user_patterns[last.user].categories) = {"type_0", "type_2"}

\* C11: get_user_insights(user) leaves the whole learner state unchanged,
\* the set of users that have a profile included, and reports the user's
\* task count, category count and time-pattern key count with at most 3
\* categories of at most 3 sample texts each, in insertion order.
C11_InsightsReadOnly ==
    [][last'.op = "get_user_insights" =>
        LET profile == ProfileOf(user_patterns, last'.user)
            report == last'.result[1]
            samples == report.sample_categories
        IN  /\ last'.exc = "none"
            /\ user_patterns' = user_patterns
            /\ DOMAIN user_patterns' = DOMAIN user_patterns
            /\ vectorizer' = vectorizer
            /\ report.total_tasks = Len(profile.tasks)
            /\ report.categories_found = Len(profile.categories)
            /\ report.time_patterns = Len(profile.time_patterns)
            /\ Len(samples) = Min(3, Len(profile.categories))
            /\ \A i \in 1..Len(samples) :
                   /\ samples[i].key = profile.categories[i].key
                   /\ Len(samples[i].val) = Min(3, Len(profile.categories[i].val))
                   /\ \A j \in 1..Len(samples[i].val) :
                          samples[i].val[j] = profile.categories[i].val[j].text]_vars

\* C12: learn_from_task(text, A) changes only user A's profile: every other
\* user B has a profile after the call exactly when B had one before, with
\* the same tasks, task texts, vectors, categories and time patterns, in any
\* interleaving of the users' calls, though the call refits the vectorizer
\* all users share.
C12_LearnTouchesOneUser ==
    [][last'.op = "learn_from_task" =>
        \A B \in Users \ {last'.user} :
            /\ B \in DOMAIN user_patterns' <=> B \in DOMAIN user_patterns
            /\ B \in DOMAIN user_patterns =>
                   /\ user_patterns'[B].tasks = user_patterns[B].tasks
                   /\ user_patterns'[B].task_texts = user_patterns[B].task_texts
                   /\ user_patterns'[B].vectors = user_patterns[B].vectors
                   /\ user_patterns'[B].categories = user_patterns[B].categories
                   /\ user_patterns'[B].time_patterns = user_patterns[B].time_patterns]_vars

\* u1's call has refitted the shared vectorizer on u1's texts while u2 keeps
\* the vectors fitted on other texts
C12_Witness ==
    /\ last.op = "learn_from_task"
    /\ last.user = "u1"
    /\ RefitRan
    /\ "u2" \in DOMAIN user_patterns
    /\ user_patterns["u2"].vectors.fitted
    /\ user_patterns["u1"].vectors.fitted
    /\ vectorizer.vocabulary = UNION Range(user_patterns["u1"].vectors.rows)
    /\ vectorizer.vocabulary # UNION Range(user_patterns["u2"].vectors.rows)
====
